---- MODULE Spec2Model ----
\* Pattern matching and instantiation over an e-graph (src/src/pattern.rs).
EXTENDS Naturals, Sequences, FiniteSets, TLC

VARIABLES egraph, pattern, last

vars == <<egraph, pattern, last>>

\* ---------------------------------------------------------------- bounds
MaxNodes == 3
MaxArity == 2

Ops == {"f", "g"}

\* ---------------------------------------------------------------- helpers
Range(s) == {s[i] : i \in DOMAIN s}

RECURSIVE SeqsUpTo(_, _)
SeqsUpTo(S, n) ==
    IF n = 0 THEN {<<>>}
    ELSE LET shorter == SeqsUpTo(S, n - 1)
         IN shorter \cup {Append(s, x) : s \in {t \in shorter : Len(t) = n - 1}, x \in S}

RECURSIVE Dedup(_)
Dedup(s) ==
    IF s = <<>> THEN <<>>
    ELSE LET front == Dedup(SubSeq(s, 1, Len(s) - 1))
             x == s[Len(s)]
         IN IF x \in Range(front) THEN front ELSE Append(front, x)

\* ---------------------------------------------------------------- e-graph
\* An enode: operator and ordered children (class ids).
ENode(op, children) == [op |-> op, children |-> children]

\* The graph: per id the enodes of its class (empty for a merged-away id) and
\* the id's leader in the union-find.
EmptyGraph == [classes |-> <<>>, leaders |-> <<>>]

Ids(g) == DOMAIN g.leaders

find(g, id) == g.leaders[id]

\* classes(): the canonical classes, in id order.
RECURSIVE LeadersUpTo(_, _)
LeadersUpTo(g, n) ==
    IF n = 0 THEN <<>>
    ELSE IF g.leaders[n] = n THEN Append(LeadersUpTo(g, n - 1), n)
         ELSE LeadersUpTo(g, n - 1)

classes(g) == LeadersUpTo(g, Len(g.leaders))

\* egraph[eclass]: the enodes of the class.
nodes(g, eclass) == g.classes[find(g, eclass)]

\* Hash-consed insertion: the class of a structurally identical enode, or a
\* new class.
add(g, enode) ==
    LET hit == {l \in Ids(g) : enode \in Range(g.classes[l])}
    IN IF hit # {}
       THEN [g |-> g, id |-> CHOOSE l \in hit : TRUE]
       ELSE [g |-> [classes |-> Append(g.classes, <<enode>>),
                    leaders |-> Append(g.leaders, Len(g.leaders) + 1)],
             id |-> Len(g.leaders) + 1]

union(g, a, b) ==
    LET la == find(g, a)
        lb == find(g, b)
    IN IF la = lb THEN g
       ELSE [classes |-> [i \in DOMAIN g.classes |->
                            IF i = la THEN Dedup(g.classes[la] \o g.classes[lb])
                            ELSE IF i = lb THEN <<>>
                            ELSE g.classes[i]],
             leaders |-> [i \in DOMAIN g.leaders |->
                            IF g.leaders[i] = lb THEN la ELSE g.leaders[i]]]

canonicalize(g, enode) ==
    ENode(enode.op, [i \in DOMAIN enode.children |-> find(g, enode.children[i])])

RECURSIVE MapCanon(_, _)
MapCanon(g, ns) ==
    IF ns = <<>> THEN <<>>
    ELSE Append(MapCanon(g, SubSeq(ns, 1, Len(ns) - 1)), canonicalize(g, ns[Len(ns)]))

rebuild_classes(g) ==
    [classes |-> [i \in DOMAIN g.classes |-> Dedup(MapCanon(g, g.classes[i]))],
     leaders |-> g.leaders]

RECURSIVE rebuild(_)
rebuild(g) ==
    LET c == rebuild_classes(g)
        clash == {p \in Ids(c) \X Ids(c) :
                    /\ p[1] < p[2]
                    /\ Range(c.classes[p[1]]) \cap Range(c.classes[p[2]]) # {}}
    IN IF clash = {} THEN c
       ELSE LET p == CHOOSE q \in clash : \A r \in clash :
                        q[1] < r[1] \/ (q[1] = r[1] /\ q[2] <= r[2])
            IN rebuild(union(c, p[1], p[2]))

IsRebuilt(g) == rebuild(g) = g

\* ---------------------------------------------------------------- patterns
\* Pattern<L>: ENode with pattern children, or a named wildcard of a kind.
PENode(op, children) == [type |-> "ENode", op |-> op, children |-> children]
Wildcard(name, kind) == [type |-> "Wildcard", name |-> name, kind |-> kind]

is_multi_wildcard(p) == p.type = "Wildcard" /\ p.kind = "ZeroOrMore"

\* A RecExpr is a ground term: [op, children] with RecExpr children.
RecExpr(op, children) == [op |-> op, children |-> children]

RECURSIVE from_expr(_)
from_expr_shallow(e) == PENode(e.op, <<>>)

from_expr(e) ==
    PENode(e.op, [i \in DOMAIN e.children |-> from_expr(e.children[i])])

\* Result<RecExpr, String>: the error names the wildcard met first.
RECURSIVE to_expr(_)
RECURSIVE map_children_result(_, _)
map_children_result(children, done) ==
    IF Len(done) = Len(children) THEN [ok |-> TRUE, children |-> done]
    ELSE LET r == to_expr(children[Len(done) + 1])
         IN IF r.ok THEN map_children_result(children, Append(done, r.expr))
            ELSE r

to_expr(p) ==
    IF p.type = "Wildcard" THEN [ok |-> FALSE, err |-> p.name]
    ELSE LET r == map_children_result(p.children, <<>>)
         IN IF r.ok THEN [ok |-> TRUE, expr |-> RecExpr(p.op, r.children)]
            ELSE r

\* ---------------------------------------------------------------- WildMap
\* WildMap.vec: a sequence of (name, kind, ids) entries.
Entry(w, kind, ids) == [w |-> w, kind |-> kind, ids |-> ids]

DefaultWildMap == <<>>

\* The position of the first entry named w, 0 when there is none.
position_of(m, w) ==
    IF \E i \in DOMAIN m : m[i].w = w
    THEN CHOOSE i \in DOMAIN m : m[i].w = w /\ \A j \in 1..(i - 1) : m[j].w # w
    ELSE 0

\* get: the ids of the first entry named w; the stored kind must be the
\* requested one (assert_eq).
get_at(m, i, kind) ==
    IF i = 0 THEN [panic |-> FALSE, some |-> FALSE, ids |-> <<>>]
    ELSE IF m[i].kind # kind THEN [panic |-> TRUE, some |-> FALSE, ids |-> <<>>]
    ELSE [panic |-> FALSE, some |-> TRUE, ids |-> m[i].ids]

get(m, w, kind) == get_at(m, position_of(m, w), kind)

\* insert: the existing ids when w is bound (the map is left alone), else
\* the entry is pushed.
insert_after(r, m, w, kind, ids) ==
    IF r.panic THEN [panic |-> TRUE, some |-> FALSE, ids |-> <<>>, map |-> m]
    ELSE IF r.some THEN [panic |-> FALSE, some |-> TRUE, ids |-> r.ids, map |-> m]
    ELSE [panic |-> FALSE, some |-> FALSE, ids |-> <<>>,
          map |-> Append(m, Entry(w, kind, ids))]

insert(m, w, kind, ids) == insert_after(get(m, w, kind), m, w, kind, ids)

\* ---------------------------------------------------------------- matcher
Ok(ms) == [panic |-> FALSE, mappings |-> ms]
Panicked == [panic |-> TRUE, mappings |-> <<>>]

RECURSIVE Flatten(_)
Flatten(ss) == IF ss = <<>> THEN <<>> ELSE Head(ss) \o Flatten(Tail(ss))

\* multi_cartesian_product: every choice of one element per list, the last
\* list varying fastest.
RECURSIVE PrependAll(_, _)
PrependAll(x, tuples) ==
    IF tuples = <<>> THEN <<>>
    ELSE <<(<<x>> \o Head(tuples))>> \o PrependAll(x, Tail(tuples))

RECURSIVE ProductFrom(_, _)
ProductFrom(first, restProduct) ==
    IF first = <<>> THEN <<>>
    ELSE PrependAll(Head(first), restProduct) \o ProductFrom(Tail(first), restProduct)

RECURSIVE multi_cartesian_product(_)
multi_cartesian_product(lists) ==
    IF lists = <<>> THEN << <<>> >>
    ELSE ProductFrom(Head(lists), multi_cartesian_product(Tail(lists)))

\* The inner loops of the merge: the entries of ms[1..] are inserted in
\* order into a copy of ms[0]; a different binding already there abandons
\* the combination.
RECURSIVE merge_entries(_, _)
merge_entry_overwriting(r, e, entries) ==
    IF r.panic THEN [status |-> "panic", map |-> r.map]
    ELSE merge_entries(r.map, Tail(entries))

merge_entry(r, e, entries) ==
    IF r.panic THEN [status |-> "panic", map |-> r.map]
    ELSE IF r.some /\ r.ids # e.ids THEN [status |-> "conflict", map |-> r.map]
    ELSE merge_entries(r.map, Tail(entries))

merge_entries(combined, entries) ==
    IF entries = <<>> THEN [status |-> "ok", map |-> combined]
    ELSE merge_entry(insert(combined, Head(entries).w, Head(entries).kind, Head(entries).ids),
                     Head(entries), entries)

combine_first_only(ms) == [status |-> "ok", map |-> ms[1]]

combine(ms) == merge_entries(ms[1], Flatten(Tail(ms)))

\* 'outer: the loop over the product.
RECURSIVE merge_product(_, _)
merge_combined(c, tuples, acc) ==
    IF c.status = "panic" THEN Panicked
    ELSE IF c.status = "conflict" THEN merge_product(Tail(tuples), acc)
    ELSE merge_product(Tail(tuples), Append(acc, c.map))

merge_product(tuples, acc) ==
    IF tuples = <<>> THEN Ok(acc)
    ELSE merge_combined(combine(Head(tuples)), tuples, acc)

n_multi(children) ==
    Cardinality({i \in DOMAIN children : is_multi_wildcard(children[i])})

multi_position_last(children) == Len(children)

\* The position of the first ZeroOrMore child.
multi_position(children) ==
    CHOOSE i \in DOMAIN children :
        /\ is_multi_wildcard(children[i])
        /\ \A j \in DOMAIN children : is_multi_wildcard(children[j]) => i <= j

\* (range, multi_mapping): how many leading children are matched one by one,
\* and the candidate list of the tail wildcard.
range_of(children) ==
    IF n_multi(children) > 0 THEN Len(children) - 1 ELSE Len(children)

multi_mapping_after(children, e) ==
    IF n_multi(children) > 0
    THEN <<(<<(<<Entry(children[Len(children)].name, "ZeroOrMore",
                       SubSeq(e.children, Len(children) + 1, Len(e.children)))>>)>>)>>
    ELSE <<>>

multi_mapping(children, e) ==
    IF n_multi(children) > 0
    THEN <<(<<(<<Entry(children[Len(children)].name, "ZeroOrMore",
                       SubSeq(e.children, Len(children), Len(e.children)))>>)>>)>>
    ELSE <<>>

skips_shorter_only(children, e) ==
    IF n_multi(children) > 0 THEN Len(children) - 1 > Len(e.children)
    ELSE Len(children) > Len(e.children)

\* The `continue` of each branch.
skips(children, e) ==
    IF n_multi(children) > 0 THEN Len(children) - 1 > Len(e.children)
    ELSE Len(children) # Len(e.children)

RECURSIVE search_pat(_, _, _)
RECURSIVE search_children(_, _, _, _, _)
\* arg_mappings: the first n pattern children against the enode's children.
search_child(r, children, n, g, e, done) ==
    IF r.panic THEN Panicked
    ELSE search_children(children, n, g, e, Append(done, r.mappings))

search_children(children, n, g, e, done) ==
    IF Len(done) = n THEN Ok(done)
    ELSE search_child(search_pat(children[Len(done) + 1], g, e.children[Len(done) + 1]),
                      children, n, g, e, done)

merge_args(args, multi) ==
    IF args.panic THEN Panicked
    ELSE merge_product(multi_cartesian_product(args.mappings \o multi), <<>>)

\* One turn of the loop over the enodes with the pattern's operator.
search_enode(pat_expr, g, e) ==
    IF n_multi(pat_expr.children) > 1 THEN Panicked
    ELSE IF /\ n_multi(pat_expr.children) = 1
            /\ multi_position(pat_expr.children) # Len(pat_expr.children)
    THEN Panicked
    ELSE IF skips(pat_expr.children, e) THEN Ok(<<>>)
    ELSE merge_args(search_children(pat_expr.children, range_of(pat_expr.children),
                                    g, e, <<>>),
                    multi_mapping(pat_expr.children, e))

RECURSIVE search_enodes(_, _, _, _)
search_enodes_push_break(r, pat_expr, g, ns, acc) ==
    IF r.panic THEN Panicked
    ELSE IF r.mappings # <<>> THEN Ok(acc \o r.mappings)
    ELSE search_enodes(pat_expr, g, Tail(ns), acc)

search_enodes_push(r, pat_expr, g, ns, acc) ==
    IF r.panic THEN Panicked
    ELSE search_enodes(pat_expr, g, Tail(ns), acc \o r.mappings)

search_enodes(pat_expr, g, ns, acc) ==
    IF ns = <<>> THEN Ok(acc)
    ELSE IF Head(ns).op # pat_expr.op THEN search_enodes(pat_expr, g, Tail(ns), acc)
    ELSE search_enodes_push(search_enode(pat_expr, g, Head(ns)), pat_expr, g, ns, acc)

\* The childless pattern: one empty table when some enode is the same leaf.
search_leaf(pat_expr, ns) ==
    IF \E i \in DOMAIN ns : ns[i].children = <<>> /\ pat_expr.op = ns[i].op
    THEN Ok(<<DefaultWildMap>>)
    ELSE Ok(<<>>)

search_pat(pat, g, eclass) ==
    IF pat.type = "Wildcard"
    THEN IF pat.kind # "Single" THEN Panicked
         ELSE Ok(<<(<<Entry(pat.name, pat.kind, <<eclass>>)>>)>>)
    ELSE IF pat.children = <<>> THEN search_leaf(pat, nodes(g, eclass))
    ELSE search_enodes(pat, g, nodes(g, eclass), <<>>)

\* Option<SearchMatches>, or the panic.
to_matches(r, eclass) ==
    IF r.panic THEN [panic |-> TRUE, some |-> FALSE, eclass |-> eclass, mappings |-> <<>>]
    ELSE [panic |-> FALSE, some |-> r.mappings # <<>>, eclass |-> eclass,
          mappings |-> r.mappings]

search_eclass(pat, g, eclass) == to_matches(search_pat(pat, g, eclass), eclass)

\* Vec<SearchMatches> over classes(), or the panic.
RECURSIVE search_classes(_, _, _, _)
filter_map(r, pat, g, cs, acc) ==
    IF r.panic THEN [panic |-> TRUE, matches |-> <<>>]
    ELSE IF r.some
    THEN search_classes(pat, g, Tail(cs),
                        Append(acc, [eclass |-> r.eclass, mappings |-> r.mappings]))
    ELSE search_classes(pat, g, Tail(cs), acc)

search_classes(pat, g, cs, acc) ==
    IF cs = <<>> THEN [panic |-> FALSE, matches |-> acc]
    ELSE filter_map(search_eclass(pat, g, Head(cs)), pat, g, cs, acc)

search(pat, g) == search_classes(pat, g, classes(g), <<>>)

\* ---------------------------------------------------------------- instantiator
RECURSIVE apply_pat(_, _, _)
RECURSIVE apply_children(_, _, _, _)
\* flat_map over the children, left to right, on the graph as it grows.
apply_child_reversed(r, children, mapping, ids) ==
    IF r.panic THEN r
    ELSE apply_children(Tail(children), r.g, mapping, r.ids \o ids)

apply_child(r, children, mapping, ids) ==
    IF r.panic THEN r
    ELSE apply_children(Tail(children), r.g, mapping, ids \o r.ids)

apply_children(children, g, mapping, ids) ==
    IF children = <<>> THEN [panic |-> FALSE, ids |-> ids, g |-> g]
    ELSE apply_child(apply_pat(Head(children), g, mapping), children, mapping, ids)

added(a) == [panic |-> FALSE, ids |-> <<a.id>>, g |-> a.g]

apply_enode(op, cs) ==
    IF cs.panic THEN cs
    ELSE added(add(cs.g, ENode(op, cs.ids)))

apply_wildcard_first(r, g) ==
    IF r.panic \/ ~r.some THEN [panic |-> TRUE, ids |-> <<>>, g |-> g]
    ELSE [panic |-> FALSE, ids |-> IF r.ids = <<>> THEN <<>> ELSE <<r.ids[1]>>, g |-> g]

apply_wildcard(r, g) ==
    IF r.panic \/ ~r.some THEN [panic |-> TRUE, ids |-> <<>>, g |-> g]
    ELSE [panic |-> FALSE, ids |-> r.ids, g |-> g]

apply_pat(pat, g, mapping) ==
    IF pat.type = "Wildcard"
    THEN apply_wildcard(get(mapping, pat.name, pat.kind), g)
    ELSE apply_enode(pat.op, apply_children(pat.children, g, mapping, <<>>))

apply_one_unioning(pat, g, eclass, mapping) ==
    LET r == apply_pat(pat, g, mapping)
    IN IF r.panic THEN r ELSE [r EXCEPT !.g = union(r.g, eclass, r.ids[1])]

apply_one(pat, g, eclass, mapping) == apply_pat(pat, g, mapping)

\* ---------------------------------------------------------------- pattern inputs
WA == Wildcard("?a", "Single")
WB == Wildcard("?b", "Single")
MA == Wildcard("?a", "ZeroOrMore")
MB == Wildcard("?b", "ZeroOrMore")
Rest == Wildcard("?rest", "ZeroOrMore")
LeafF == PENode("f", <<>>)
LeafG == PENode("g", <<>>)

Atoms == {WA, WB, MA, MB, LeafF, LeafG}
Children == {WA, WB, MA, MB, LeafG}

\* (f c1) and (f c1 c2) over the children, every placement of the wildcards.
Flat == {PENode("f", cs) : cs \in SeqsUpTo(Children, 2) \ {<<>>}}

\* Some node has more than one ZeroOrMore child, or one that is not last.
RECURSIVE Malformed(_)
Malformed(p) ==
    /\ p.type = "ENode"
    /\ \/ \E i \in DOMAIN p.children :
            is_multi_wildcard(p.children[i]) /\ i # Len(p.children)
       \/ \E i \in DOMAIN p.children : Malformed(p.children[i])

Nested ==
    {PENode("f", <<PENode("f", <<WA>>), WA>>),
     PENode("f", <<PENode("f", <<WA>>), WB>>),
     PENode("f", <<PENode("f", <<WA, WB>>), WA>>),
     PENode("f", <<PENode("f", <<MA>>), MB>>),
     PENode("g", <<PENode("f", <<WB, MA>>)>>)}

\* The well-formed patterns searched and applied.
Patterns == Atoms \cup {p \in Flat : ~Malformed(p)} \cup Nested

\* (op ?v1 ... ?vn), the ?vi pairwise distinct Single wildcards.
PatDistinct ==
    {PENode(op, ws) : op \in Ops, ws \in {<<WA>>, <<WB>>, <<WA, WB>>, <<WB, WA>>}}

\* One name under two sibling children, with controls that share none.
PatSibling ==
    {PENode("f", <<WA, WA>>),
     PENode("f", <<WA, WB>>),
     PENode("f", <<PENode("f", <<WA>>), WA>>),
     PENode("f", <<PENode("f", <<WA, WB>>), WA>>),
     PENode("f", <<PENode("f", <<WA, WB>>), WB>>),
     PENode("f", <<PENode("f", <<WA, WB>>), PENode("f", <<WB, WA>>)>>),
     PENode("f", <<PENode("f", <<MA>>), PENode("f", <<MA>>)>>),
     PENode("f", <<PENode("f", <<MA>>), MA>>),
     PENode("g", <<PENode("f", <<WA, WB>>), PENode("g", <<WA>>)>>)}

\* A ZeroOrMore wildcard in the tail position, behind a fixed prefix.
PatTail ==
    {PENode("f", <<Rest>>),
     PENode("f", <<WA, Rest>>),
     PENode("g", <<WA, Rest>>),
     PENode("f", <<WA, WB, Rest>>),
     PENode("f", <<WA, WA, Rest>>),
     PENode("f", <<LeafG, Rest>>),
     PENode("f", <<PENode("f", <<WA>>), Rest>>),
     PENode("f", <<PENode("f", <<Rest>>), Rest>>),
     PENode("f", <<WA, MA>>)}

\* Ground terms, and the ground patterns they lift to.
Terms0 == {RecExpr(op, <<>>) : op \in Ops}
Terms1 == {RecExpr(op, cs) : op \in Ops, cs \in SeqsUpTo(Terms0, MaxArity)}
Terms == {RecExpr(op, cs) : op \in Ops, cs \in SeqsUpTo(Terms1, MaxArity)}

PatGround ==
    {from_expr(t) : t \in {RecExpr("f", cs) : cs \in SeqsUpTo(Terms0, MaxArity)}}
    \cup {LeafG,
          PENode("f", <<PENode("f", <<LeafG>>)>>),
          PENode("g", <<PENode("f", <<LeafG>>), LeafG>>),
          PENode("f", <<PENode("g", <<LeafF>>), PENode("g", <<LeafF>>)>>)}

\* Malformed patterns, with well-formed controls.
PatMalformed ==
    {p \in Flat : Malformed(p)}
    \cup {PENode("g", <<PENode("f", <<MA, WB>>)>>),
          PENode("f", <<WA, PENode("f", <<MA, MB>>)>>),
          PENode("f", <<PENode("g", <<MA, WA>>), MB>>),
          PENode("f", <<WA>>),
          PENode("f", <<WA, MB>>)}

\* Patterns with wildcards at the root, below it and two levels down.
PatConv ==
    Patterns \cup PatMalformed \cup PatGround
    \cup {PENode("f", <<PENode("g", <<LeafF, PENode("f", <<WA>>)>>)>>),
          PENode("g", <<LeafF, PENode("f", <<LeafG, MB>>)>>)}

\* ---------------------------------------------------------------- actions
None == [kind |-> "none"]

\* The pattern is built before the graph is touched; the graph starts empty.
InitWith(patterns) ==
    /\ egraph = EmptyGraph
    /\ pattern \in patterns
    /\ last = None

Running == last.kind # "panic"

Added(r) ==
    /\ Len(r.g.leaders) <= MaxNodes
    /\ egraph' = r.g

Add(op, children) ==
    /\ Running
    /\ Range(children) \subseteq Ids(egraph)
    /\ Added(add(egraph, ENode(op, children)))
    /\ last' = None
    /\ UNCHANGED pattern

Union(a, b) ==
    /\ Running
    /\ egraph' = union(egraph, a, b)
    /\ last' = None
    /\ UNCHANGED pattern

Rebuild ==
    /\ Running
    /\ egraph' = rebuild(egraph)
    /\ last' = None
    /\ UNCHANGED pattern

SearchRecord(r) ==
    IF r.panic THEN [kind |-> "panic", op |-> "search"]
    ELSE [kind |-> "search", matches |-> r.matches]

Search ==
    /\ Running
    /\ last' = SearchRecord(search(pattern, egraph))
    /\ UNCHANGED <<egraph, pattern>>

SearchEclassRecord(r) ==
    IF r.panic THEN [kind |-> "panic", op |-> "search_eclass", eclass |-> r.eclass]
    ELSE [kind |-> "search_eclass", eclass |-> r.eclass, some |-> r.some,
          mappings |-> r.mappings]

SearchEclass(eclass) ==
    /\ Running
    /\ last' = SearchEclassRecord(search_eclass(pattern, egraph, eclass))
    /\ UNCHANGED <<egraph, pattern>>

\* The (class, table) pairs of the last search, as the rewrite driver feeds
\* them to apply_one.
MatchedTables ==
    IF last.kind = "search"
    THEN UNION {{<<last.matches[i].eclass, last.matches[i].mappings[j]>> :
                    j \in DOMAIN last.matches[i].mappings} : i \in DOMAIN last.matches}
    ELSE {}

\* Tables a caller can hand over without a search.
GivenTables(eclass) ==
    {DefaultWildMap, <<Entry("?a", "Single", <<eclass>>)>>}

\* The record of a call keeps the graph it started from and, when the call
\* before it was an apply_one too, the ids that one returned.
ApplyRecord(r, eclass, mapping, origin) ==
    IF r.panic THEN [kind |-> "panic", op |-> "apply_one"]
    ELSE [kind |-> "apply_one", eclass |-> eclass, mapping |-> mapping,
          origin |-> origin, ids |-> r.ids, pre |-> egraph,
          again |-> last.kind = "apply_one",
          prev |-> IF last.kind = "apply_one" THEN last.ids ELSE <<>>]

Applied(r, eclass, mapping, origin) ==
    /\ Len(r.g.leaders) <= MaxNodes
    /\ egraph' = r.g
    /\ last' = ApplyRecord(r, eclass, mapping, origin)

ApplyOne(eclass, mapping, origin) ==
    /\ Running
    /\ Applied(apply_one(pattern, egraph, eclass, mapping), eclass, mapping, origin)
    /\ UNCHANGED pattern

FromExpr(e) ==
    /\ pattern' = from_expr(e)
    /\ last' = [kind |-> "from_expr", expr |-> e]
    /\ UNCHANGED egraph

\* The record keeps the term the pattern was lifted from, when the call
\* before was that from_expr.
ToExpr ==
    /\ last' = [kind |-> "to_expr", res |-> to_expr(pattern),
                lifted |-> IF last.kind = "from_expr" THEN <<last.expr>> ELSE <<>>]
    /\ UNCHANGED <<egraph, pattern>>

Next ==
    \/ \E op \in Ops : \E children \in SeqsUpTo(1..MaxNodes, MaxArity) : Add(op, children)
    \/ \E a \in Ids(egraph) : \E b \in Ids(egraph) : Union(a, b)
    \/ Rebuild
    \/ Search
    \/ \E eclass \in Range(classes(egraph)) : SearchEclass(eclass)
    \/ \E m \in MatchedTables : ApplyOne(m[1], m[2], "search")
    \/ \E eclass \in Range(classes(egraph)) : \E mapping \in GivenTables(eclass) :
            ApplyOne(eclass, mapping, "given")

NextConv ==
    \/ \E e \in Terms : FromExpr(e)
    \/ ToExpr

Spec == InitWith(Patterns) /\ [][Next]_vars
SpecDistinct == InitWith(PatDistinct) /\ [][Next]_vars
SpecSibling == InitWith(PatSibling) /\ [][Next]_vars
SpecTail == InitWith(PatTail) /\ [][Next]_vars
SpecGround == InitWith(PatGround) /\ [][Next]_vars
SpecMalformed == InitWith(PatMalformed) /\ [][Next]_vars
SpecConv == InitWith(PatConv) /\ [][NextConv]_vars

\* ---------------------------------------------------------------- properties
\* The names of the wildcards of a pattern.
RECURSIVE WildcardNames(_)
WildcardNames(p) ==
    IF p.type = "Wildcard" THEN {p.name}
    ELSE UNION {WildcardNames(p.children[i]) : i \in DOMAIN p.children}

\* The binding tables the last search returned.
TablesOfLast ==
    IF last.kind = "search"
    THEN UNION {Range(last.matches[i].mappings) : i \in DOMAIN last.matches}
    ELSE IF last.kind = "search_eclass" THEN Range(last.mappings)
    ELSE {}

\* (op ?v1 ... ?vn): n >= 1 pairwise distinct Single wildcards.
DistinctSingles(p) ==
    /\ p.type = "ENode"
    /\ p.children # <<>>
    /\ \A i \in DOMAIN p.children :
            p.children[i].type = "Wildcard" /\ p.children[i].kind = "Single"
    /\ \A i, j \in DOMAIN p.children :
            i # j => p.children[i].name # p.children[j].name

\* The enodes of a class with the pattern's operator and as many children.
SameShape(p, g, c) ==
    {e \in Range(nodes(g, c)) : e.op = p.op /\ Len(e.children) = Len(p.children)}

\* The table binding ?vi to the i-th child of the enode.
ChildTable(p, e) ==
    [i \in DOMAIN p.children |-> Entry(p.children[i].name, "Single", <<e.children[i]>>)]

\* C1: for (op ?v1 ... ?vn) with distinct Single wildcards, search over a
\* rebuilt graph returns one MatchResult per class holding an enode with
\* operator op and n children, none for another class, and the tables of a
\* MatchResult are, one to one, the tables binding ?vi to the i-th child of
\* those enodes.
C1_DistinctWildcardSearch ==
    (last.kind = "search" /\ DistinctSingles(pattern) /\ IsRebuilt(egraph)) =>
        /\ {last.matches[i].eclass : i \in DOMAIN last.matches}
            = {c \in Range(classes(egraph)) : SameShape(pattern, egraph, c) # {}}
        /\ \A i, j \in DOMAIN last.matches :
                i # j => last.matches[i].eclass # last.matches[j].eclass
        /\ \A i \in DOMAIN last.matches :
                /\ Len(last.matches[i].mappings)
                    = Cardinality(SameShape(pattern, egraph, last.matches[i].eclass))
                /\ Range(last.matches[i].mappings)
                    = {ChildTable(pattern, e) :
                        e \in SameShape(pattern, egraph, last.matches[i].eclass)}

\* Two (op x y) enodes in one class after a union and a rebuild, searched
\* with (op ?a ?b): one MatchResult with the two tables, and a class left out.
C1_Witness ==
    /\ last.kind = "search"
    /\ DistinctSingles(pattern)
    /\ Len(pattern.children) = 2
    /\ IsRebuilt(egraph)
    /\ Len(classes(egraph)) < Len(egraph.leaders)
    /\ Len(classes(egraph)) > 1
    /\ Len(last.matches) = 1
    /\ Len(last.matches[1].mappings) = 2
    /\ last.matches[1].mappings[1] # last.matches[1].mappings[2]

\* C2: every binding table of every MatchResult binds each wildcard name of
\* the searched pattern, and a Single entry holds exactly one id.
C2_BindingCompleteness ==
    \A m \in TablesOfLast :
        /\ \A n \in WildcardNames(pattern) : \E i \in DOMAIN m : m[i].w = n
        /\ \A i \in DOMAIN m : m[i].kind = "Single" => Len(m[i].ids) = 1

\* A search, after a union, returning a table with a Single and a
\* ZeroOrMore binding.
C2_Witness ==
    /\ last.kind = "search"
    /\ Len(classes(egraph)) < Len(egraph.leaders)
    /\ \E m \in TablesOfLast :
        /\ Len(m) = 2
        /\ m[1].kind = "Single"
        /\ m[2].kind = "ZeroOrMore"
        /\ Len(m[2].ids) = 1

\* The candidate tables of each child of the root against an enode, the
\* tail wildcard's list last.
Candidates(p, g, e) ==
    [i \in 1..range_of(p.children) |->
        search_pat(p.children[i], g, e.children[i]).mappings]
    \o multi_mapping(p.children, e)

\* No name is bound to two different id sequences by the tables of the
\* combination.
Consistent(combo) ==
    \A i, j \in DOMAIN combo : \A x \in Range(combo[i]) : \A y \in Range(combo[j]) :
        x.w = y.w => x.ids = y.ids

EntriesOf(combo) == UNION {Range(combo[i]) : i \in DOMAIN combo}

\* The combinations of an enode that agree on every shared name, in the
\* order of the product, each as the set of its bindings.
ConsistentCombos(p, g, e) ==
    LET kept == SelectSeq(multi_cartesian_product(Candidates(p, g, e)), Consistent)
    IN [k \in DOMAIN kept |-> EntriesOf(kept[k])]

RECURSIVE ExpectedTables(_, _, _)
ExpectedTables(p, g, ns) ==
    IF ns = <<>> THEN <<>>
    ELSE (IF Head(ns).op = p.op /\ ~skips(p.children, Head(ns))
          THEN ConsistentCombos(p, g, Head(ns))
          ELSE <<>>)
         \o ExpectedTables(p, g, Tail(ns))

NodeWithChildren(p) ==
    /\ p.type = "ENode"
    /\ p.children # <<>>
    /\ ~Malformed(p)

\* C3: the matcher omits every combination of the children's candidate
\* tables in which two siblings bind one name differently and returns every
\* combination in which the siblings agree, each as one table holding the
\* bindings of the combination.
C3_SiblingConsistency ==
    (last.kind = "search_eclass" /\ NodeWithChildren(pattern)) =>
        [k \in DOMAIN last.mappings |-> Range(last.mappings[k])]
            = ExpectedTables(pattern, egraph, nodes(egraph, last.eclass))

\* A search in which one enode has a combination that is omitted and one
\* that is returned.
C3_Witness ==
    /\ last.kind = "search_eclass"
    /\ NodeWithChildren(pattern)
    /\ \E e \in Range(nodes(egraph, last.eclass)) :
        /\ e.op = pattern.op
        /\ ~skips(pattern.children, e)
        /\ LET product == multi_cartesian_product(Candidates(pattern, egraph, e))
           IN /\ \E k \in DOMAIN product : Consistent(product[k])
              /\ \E k \in DOMAIN product : ~Consistent(product[k])

\* The last child is the only ZeroOrMore wildcard.
HasTail(p) ==
    /\ NodeWithChildren(p)
    /\ is_multi_wildcard(p.children[Len(p.children)])

\* The ids a table binds a name to.
BindingOf(m, n) == m[CHOOSE i \in DOMAIN m : m[i].w = n].ids

\* The enodes the tail pattern can match: the operator, and the prefix
\* covered.
LongEnough(p, g, c) ==
    {e \in Range(nodes(g, c)) : e.op = p.op /\ Len(e.children) >= Len(p.children) - 1}

\* The prefix wildcards bound child by child, the tail bound to the rest.
TailTable(p, e) ==
    [i \in 1..(Len(p.children) - 1) |->
        Entry(p.children[i].name, "Single", <<e.children[i]>>)]
    \o <<Entry(p.children[Len(p.children)].name, "ZeroOrMore",
               SubSeq(e.children, Len(p.children), Len(e.children)))>>

DistinctNames(p) ==
    /\ \A i \in DOMAIN p.children : p.children[i].type = "Wildcard"
    /\ \A i, j \in DOMAIN p.children : i # j => p.children[i].name # p.children[j].name

\* C4: with a ZeroOrMore wildcard last, an enode with c children matches only
\* if c >= len-1; every table binds the tail to the children len-1..c-1 of
\* such an enode, in order, and holds a match of each prefix pattern against
\* the child at its position; (f ?a ?*rest) gives exactly one table per such
\* enode, ?a -> [x0], ?*rest -> [x1, ..., xk].
C4_TailWildcard ==
    (last.kind = "search_eclass" /\ HasTail(pattern)) =>
        /\ \A k \in DOMAIN last.mappings :
            \E e \in LongEnough(pattern, egraph, last.eclass) :
                /\ BindingOf(last.mappings[k], pattern.children[Len(pattern.children)].name)
                    = SubSeq(e.children, Len(pattern.children), Len(e.children))
                /\ \A i \in 1..(Len(pattern.children) - 1) :
                    \E t \in Range(search_pat(pattern.children[i], egraph,
                                              e.children[i]).mappings) :
                        Range(t) \subseteq Range(last.mappings[k])
        /\ DistinctNames(pattern) =>
            /\ Len(last.mappings) = Cardinality(LongEnough(pattern, egraph, last.eclass))
            /\ Range(last.mappings)
                = {TailTable(pattern, e) : e \in LongEnough(pattern, egraph, last.eclass)}

\* (op ?a ?*rest) searched in a class holding a childless op enode, which
\* gives no table, and an op enode with two children, which gives one.
C4_Witness ==
    /\ last.kind = "search_eclass"
    /\ HasTail(pattern)
    /\ DistinctNames(pattern)
    /\ Len(pattern.children) = 2
    /\ \E e \in Range(nodes(egraph, last.eclass)) : e.op = pattern.op /\ e.children = <<>>
    /\ Len(last.mappings) = 1
    /\ Len(last.mappings[1][2].ids) = 1

\* An enode matches a node pattern when the matcher's turn for it yields a
\* table; a childless pattern, when the enode is the same leaf.
MatchesEnode(p, g, e) ==
    /\ e.op = p.op
    /\ IF p.children = <<>> THEN e.children = <<>>
       ELSE search_enode(p, g, e).mappings # <<>>

MatchingEnodes(p, g, c) == {e \in Range(nodes(g, c)) : MatchesEnode(p, g, e)}

RECURSIVE CountTables(_, _, _)
CountTables(p, g, es) ==
    IF es = {} THEN 0
    ELSE LET e == CHOOSE x \in es : TRUE
         IN Len(search_enode(p, g, e).mappings) + CountTables(p, g, es \ {e})

\* C5: when a class holds two distinct enodes that both match the pattern,
\* search_eclass returns at least two tables, the tables of every matching
\* enode all kept, also when two of them are the same table.
C5_CongruenceDisjunction ==
    (/\ last.kind = "search_eclass"
     /\ pattern.type = "ENode"
     /\ Cardinality(MatchingEnodes(pattern, egraph, last.eclass)) >= 2) =>
        /\ last.some
        /\ Len(last.mappings) >= 2
        /\ Len(last.mappings)
            = CountTables(pattern, egraph, MatchingEnodes(pattern, egraph, last.eclass))

\* Two enodes of the class match and give the same table twice.
C5_Witness ==
    /\ last.kind = "search_eclass"
    /\ pattern.type = "ENode"
    /\ Cardinality(MatchingEnodes(pattern, egraph, last.eclass)) >= 2
    /\ \E i, j \in DOMAIN last.mappings : i # j /\ last.mappings[i] = last.mappings[j]

\* Hash-consed insertion of a term, children first and left to right.
RECURSIVE add_expr(_, _)
RECURSIVE add_exprs(_, _, _)
add_exprs(g, ts, ids) ==
    IF ts = <<>> THEN [g |-> g, ids |-> ids]
    ELSE LET a == add_expr(g, Head(ts))
         IN add_exprs(a.g, Tail(ts), Append(ids, a.id))

add_expr(g, t) ==
    LET cs == add_exprs(g, t.children, <<>>)
    IN add(cs.g, ENode(t.op, cs.ids))

\* C6: apply_one with a wildcard-free pattern returns, whatever the graph
\* and the binding table, the one id that hash-consed insertion of the term
\* returns, and leaves the graph that insertion leaves; called again it
\* returns the same id and changes nothing.
C6_GroundInstantiation ==
    (last.kind = "apply_one" /\ WildcardNames(pattern) = {}) =>
        /\ last.ids = <<add_expr(last.pre, to_expr(pattern).expr).id>>
        /\ egraph = add_expr(last.pre, to_expr(pattern).expr).g
        /\ last.again => (last.ids = last.prev /\ egraph = last.pre)

\* A nested ground pattern applied a second time, with a non-empty table,
\* to a graph in which classes were merged.
C6_Witness ==
    /\ last.kind = "apply_one"
    /\ WildcardNames(pattern) = {}
    /\ \E i \in DOMAIN pattern.children : pattern.children[i].children # <<>>
    /\ last.again
    /\ last.mapping # <<>>
    /\ Len(classes(egraph)) < Len(egraph.leaders)

RECURSIVE HasWildcard(_)
HasWildcard(p) ==
    \/ p.type = "Wildcard"
    \/ \E i \in DOMAIN p.children : HasWildcard(p.children[i])

\* C7: to_expr of a pattern fails exactly when the pattern holds a wildcard
\* at some depth, and to_expr of the pattern from_expr built from a term
\* succeeds with that term.
C7_ToExprInverse ==
    last.kind = "to_expr" =>
        /\ last.res.ok <=> ~HasWildcard(pattern)
        /\ last.lifted # <<>> => last.res = [ok |-> TRUE, expr |-> last.lifted[1]]

\* The round trip of a term of depth two with two children.
C7_Witness ==
    /\ last.kind = "to_expr"
    /\ last.lifted # <<>>
    /\ Len(last.lifted[1].children) = 2
    /\ \E i \in DOMAIN last.lifted[1].children :
            last.lifted[1].children[i].children # <<>>
    /\ last.res.ok

\* The root node itself breaks the tail rule.
RootMalformed(p) ==
    /\ p.type = "ENode"
    /\ \E i \in DOMAIN p.children : is_multi_wildcard(p.children[i]) /\ i # Len(p.children)

HoldsOp(g, c, op) == \E e \in Range(nodes(g, c)) : e.op = op

\* C8 as stated: search_eclass with a malformed pattern never returns.
C8_Original ==
    Malformed(pattern) => last.kind # "search_eclass"

\* C8: a search with a malformed pattern never returns a match; with the
\* tail rule broken at the root, search_eclass stops with the fatal violation
\* exactly when the class holds an enode with the root's operator, and
\* returns no match otherwise.
C8_MalformedPattern ==
    Malformed(pattern) =>
        /\ last.kind = "search" => last.matches = <<>>
        /\ last.kind = "search_eclass" => ~last.some /\ last.mappings = <<>>
        /\ (RootMalformed(pattern) /\ last.kind = "search_eclass") =>
                ~HoldsOp(egraph, last.eclass, pattern.op)
        /\ (RootMalformed(pattern) /\ last.kind = "panic" /\ last.op = "search_eclass") =>
                HoldsOp(egraph, last.eclass, pattern.op)

\* A malformed pattern searched in a class with enodes, none with the
\* root's operator: the search returns, without a match.
C8_Witness ==
    /\ RootMalformed(pattern)
    /\ last.kind = "search_eclass"
    /\ ~last.some
    /\ Len(nodes(egraph, last.eclass)) >= 2

\* Every class of g is in h with the same leader and the same enodes.
Preserved(g, h) ==
    \A id \in Ids(g) :
        /\ id \in Ids(h)
        /\ h.leaders[id] = g.leaders[id]
        /\ h.classes[id] = g.classes[id]

\* C9: search and search_eclass leave the graph unchanged, and apply_one
\* keeps every class that existed before, distinct from the other classes
\* that existed before and with exactly the enodes it held.
C9_NoUnion ==
    [][/\ (\/ last'.kind \in {"search", "search_eclass"}
           \/ (last'.kind = "panic" /\ last'.op \in {"search", "search_eclass"}))
            => egraph' = egraph
       /\ (\/ last'.kind = "apply_one"
           \/ (last'.kind = "panic" /\ last'.op = "apply_one"))
            => Preserved(egraph, egraph')]_vars

\* An apply_one that added a class to a graph with merged classes.
C9_Witness ==
    /\ last.kind = "apply_one"
    /\ Len(classes(last.pre)) < Len(last.pre.leaders)
    /\ Len(egraph.leaders) > Len(last.pre.leaders)
    /\ last.ids # <<last.eclass>>

\* C10: on a rebuilt graph, applying a well-formed pattern with a table the
\* search returned for class c returns <<c>> and adds no node and no class.
C10_SearchSound ==
    (/\ last.kind = "apply_one"
     /\ last.origin = "search"
     /\ ~Malformed(pattern)
     /\ IsRebuilt(last.pre)) =>
        /\ last.ids = <<last.eclass>>
        /\ egraph = last.pre

\* A nested pattern with a tail wildcard applied with a table found in a
\* rebuilt graph whose classes were merged.
C10_Witness ==
    /\ last.kind = "apply_one"
    /\ last.origin = "search"
    /\ IsRebuilt(last.pre)
    /\ Len(classes(last.pre)) < Len(last.pre.leaders)
    /\ HasWildcard(pattern)
    /\ \E i \in DOMAIN last.mapping : last.mapping[i].kind = "ZeroOrMore"
    /\ last.ids = <<last.eclass>>
====
